---- MODULE Spec2Model ----
(***************************************************************************)
(* The workspace walker of src/src/utils/package-managers.ts.old:          *)
(* class Package, its dependency graph (npm module "dependency-graph"),    *)
(* the batch scheduler and the executor loop of workspaceWalk.             *)
(*                                                                         *)
(* Package names are modelled as naturals (their order is the order of the *)
(* name strings).  A package is identified by its path, 1..NumPkgs, in the *)
(* order the glob expansion returns the member directories.                *)
(***************************************************************************)
EXTENDS Naturals, Sequences, FiniteSets

\* ------------------------------------------------------------------ bounds
NumPkgs == 2
MaxDeps == 2
NumWalks == 2

\* ------------------------------------------------------- sequence helpers
RECURSIVE SeqOfSet(_)
\* The elements of a set of naturals in ascending order (Object.keys of a
\* dependency map whose keys were written in sorted order, as npm does).
SeqOfSet(S) ==
  IF S = {} THEN <<>>
  ELSE LET m == CHOOSE x \in S : \A y \in S : x <= y
       IN  <<m>> \o SeqOfSet(S \ {m})

Range(s) == {s[i] : i \in 1..Len(s)}

RECURSIVE Without(_, _)
\* Array.prototype.splice(indexOf(x), 1): the list without its first x.
Without(s, x) ==
  IF s = <<>> THEN <<>>
  ELSE IF Head(s) = x THEN Tail(s)
  ELSE <<Head(s)>> \o Without(Tail(s), x)

RECURSIVE FlatBackwards(_)
\* the batches are concatenated last to first
FlatBackwards(ss) == IF ss = <<>> THEN <<>> ELSE FlatBackwards(Tail(ss)) \o Head(ss)

RECURSIVE Flat(_)
\* Array.prototype.flat()
Flat(ss) == IF ss = <<>> THEN <<>> ELSE Head(ss) \o Flat(Tail(ss))

RECURSIVE SubsetsUpTo(_, _)
SubsetsUpTo(S, k) ==
  IF k = 0 THEN {{}}
  ELSE LET prev == SubsetsUpTo(S, k - 1)
       IN  prev \cup {T \cup {x} : T \in prev, x \in S}

\* ------------------------------------------------------------- data model
Paths == 1..NumPkgs
Names == 1..NumPkgs
\* 0 is a name no workspace member carries (an external package)
DepNames == 0..NumPkgs

\* The four dependency kinds in the order lines 89-92 concatenate them.
Kinds == <<"dependencies", "devDependencies", "peerDependencies", "optionalDependencies">>
KindSet == Range(Kinds)

\* PackageJson of one member: its name and its four dependency maps (keys only)
PackageData(nm, entries, p) ==
  [name |-> nm[p],
   deps |-> [k \in KindSet |-> {e[3] : e \in {x \in entries : x[1] = p /\ x[2] = k}}]]

\* Package.dependencyNames and its three siblings
dependencyNames(pkg, k) == SeqOfSet(pkg.deps[k])

\* ---------------------------------------------------------------- registry
\* linq orderBy is a stable sort: rank of a path among the loaded packages
Rank(data, p) ==
  Cardinality({q \in DOMAIN data :
                 \/ data[q].name < data[p].name
                 \/ data[q].name = data[p].name /\ q < p}) + 1

\* _workspacePackagesQueryFactory: the loaded members ordered by name
workspacePackagesQueryFactory(data) ==
  [i \in 1..Cardinality(DOMAIN data) |-> CHOOSE p \in DOMAIN data : Rank(data, p) = i]

\* -------------------------------------------- DepGraph (dependency-graph)
\* A DepGraph object: keys is Object.keys(this.nodes) (insertion order),
\* nodes the node data (the Package, by path), outgoingEdges / incomingEdges
\* the two adjacency lists.  threw is the exception a method raised, "" if none.
NewDepGraph ==
  [keys |-> <<>>,
   nodes |-> [n \in {} |-> 0],
   outgoingEdges |-> [n \in {} |-> <<>>],
   incomingEdges |-> [n \in {} |-> <<>>],
   threw |-> ""]

Ext(f, k, v) == [x \in (DOMAIN f) \cup {k} |-> IF x = k THEN v ELSE f[x]]

hasNode(g, n) == n \in DOMAIN g.nodes

\* DepGraph.addNode: a name that is already a node keeps its first data
addNode(g, n, d) ==
  IF hasNode(g, n) THEN g
  ELSE [g EXCEPT !.keys = Append(@, n),
                 !.nodes = Ext(@, n, d),
                 !.outgoingEdges = Ext(@, n, <<>>),
                 !.incomingEdges = Ext(@, n, <<>>)]

\* DepGraph.addDependency: throws when either end is not a node
addDependency(g, from, to) ==
  IF ~hasNode(g, from) \/ ~hasNode(g, to) THEN [g EXCEPT !.threw = "NodeDoesNotExist"]
  ELSE [g EXCEPT
          !.outgoingEdges[from] = IF to \in Range(@) THEN @ ELSE Append(@, to),
          !.incomingEdges[to] = IF from \in Range(@) THEN @ ELSE Append(@, from)]

\* DepGraph.removeNode
removeNode(g, n) ==
  IF ~hasNode(g, n) THEN g
  ELSE LET rest == (DOMAIN g.nodes) \ {n}
       IN  [g EXCEPT
              !.keys = Without(@, n),
              !.nodes = [x \in rest |-> g.nodes[x]],
              !.outgoingEdges = [x \in rest |-> Without(g.outgoingEdges[x], n)],
              !.incomingEdges = [x \in rest |-> Without(g.incomingEdges[x], n)]]

RECURSIVE CycleFrom(_, _, _)
\* the cycle search of createDFS: a node met again on the current path
CycleFrom(g, node, path) ==
  \/ node \in path
  \/ \E d \in Range(g.outgoingEdges[node]) : CycleFrom(g, d, path \cup {node})

HasCycle(g) == \E n \in DOMAIN g.nodes : CycleFrom(g, n, {})

RECURSIVE DFS(_, _, _)
RECURSIVE DFSEach(_, _, _)
\* createDFS(edges, leavesOnly = true, result): depth-first from a start node,
\* st = [visited, result]; a node with no outgoing edge is pushed to result
DFS(g, node, st) ==
  IF node \in st.visited THEN st
  ELSE LET after == DFSEach(g, g.outgoingEdges[node], st)
       IN  [visited |-> after.visited \cup {node},
            result |-> IF g.outgoingEdges[node] = <<>>
                       THEN Append(after.result, node) ELSE after.result]

DFSEach(g, starts, st) ==
  IF starts = <<>> THEN st
  ELSE DFSEach(g, Tail(starts), DFS(g, Head(starts), st))

\* overallOrder() called without leavesOnly: every node is returned
overallOrderAllNodes(g) ==
  IF g.keys = <<>> THEN [threw |-> "", result |-> <<>>]
  ELSE IF HasCycle(g) THEN [threw |-> "DepGraphCycleError", result |-> <<>>]
  ELSE [threw |-> "", result |-> g.keys]

\* the search stops at the first leaf it finds
overallOrderFirstLeaf(g) ==
  IF g.keys = <<>> THEN [threw |-> "", result |-> <<>>]
  ELSE IF HasCycle(g) THEN [threw |-> "DepGraphCycleError", result |-> <<>>]
  ELSE LET roots == SelectSeq(g.keys, LAMBDA n : g.incomingEdges[n] = <<>>)
           all == DFSEach(g, roots, [visited |-> {}, result |-> <<>>]).result
       IN  [threw |-> "", result |-> <<Head(all)>>]

\* DepGraph.overallOrder(true): DepGraphCycleError on a cycle, else the leaves
\* reached from the nodes nothing depends on, in depth-first order
overallOrder(g) ==
  IF g.keys = <<>> THEN [threw |-> "", result |-> <<>>]
  ELSE IF HasCycle(g) THEN [threw |-> "DepGraphCycleError", result |-> <<>>]
  ELSE LET roots == SelectSeq(g.keys, LAMBDA n : g.incomingEdges[n] = <<>>)
       IN  [threw |-> "",
            result |-> DFSEach(g, roots, [visited |-> {}, result |-> <<>>]).result]

\* ------------------------------------------------- graph build, scheduler
\* the comparison never holds, no kind is ever left out of the list
IsFalseNever(v) == FALSE

\* === false of lines 89-92, truthiness of lines 347-350
IsFalse(v) == v = "false"
Truthy(v) == v = "true"

\* only the runtime dependencies are read
DepListRuntimeOnly(pkg, opts, ks) ==
  IF IsFalse(opts[Kinds[1]]) THEN <<>> ELSE dependencyNames(pkg, Kinds[1])

RECURSIVE DepList(_, _, _)
\* lines 88-93: the names of the kinds not excluded, concatenated
DepList(pkg, opts, ks) ==
  IF ks = <<>> THEN <<>>
  ELSE (IF IsFalse(opts[Head(ks)]) THEN <<>> ELSE dependencyNames(pkg, Head(ks)))
       \o DepList(pkg, opts, Tail(ks))

RECURSIVE AddNodes(_, _, _)
AddNodes(g, data, reg) ==
  IF reg = <<>> THEN g
  ELSE AddNodes(addNode(g, data[Head(reg)].name, Head(reg)), data, Tail(reg))

RECURSIVE AddDeps(_, _, _)
AddDeps(g, from, ds) ==
  IF ds = <<>> \/ g.threw # "" THEN g
  ELSE AddDeps(addDependency(g, from, Head(ds)), from, Tail(ds))

RECURSIVE AddAllDeps(_, _, _, _)
AddAllDeps(g, data, reg, opts) ==
  IF reg = <<>> \/ g.threw # "" THEN g
  ELSE AddAllDeps(AddDeps(g, data[Head(reg)].name, DepList(data[Head(reg)], opts, Kinds)),
                  data, Tail(reg), opts)

\* _buildWorkspacePackagesDepGraph
buildWorkspacePackagesDepGraph(data, reg, opts) ==
  AddAllDeps(AddNodes(NewDepGraph, data, reg), data, reg, opts)

RECURSIVE RemoveNodes(_, _)
RemoveNodes(g, ns) ==
  IF ns = <<>> THEN g ELSE RemoveNodes(removeNode(g, Head(ns)), Tail(ns))

NodeData(g, ns) == [i \in 1..Len(ns) |-> g.nodes[ns[i]]]

RECURSIVE ScheduleLoop(_, _, _)
\* lines 69-73: push the leaves, remove them, ask for the leaves again
ScheduleLoop(g, names, runOrder) ==
  IF names = <<>> THEN [threw |-> "", runOrder |-> runOrder]
  ELSE LET g2 == RemoveNodes(g, names)
           nxt == overallOrder(g2)
       IN  IF nxt.threw # "" THEN [threw |-> nxt.threw, runOrder |-> <<>>]
           ELSE ScheduleLoop(g2, nxt.result, Append(runOrder, NodeData(g, names)))

\* _buildWorkspacePackagesDependencyArray
buildWorkspacePackagesDependencyArray(data, reg, opts) ==
  LET depGraph == buildWorkspacePackagesDepGraph(data, reg, opts)
      first == overallOrder(depGraph)
  IN  IF depGraph.threw # "" THEN [threw |-> depGraph.threw, runOrder |-> <<>>]
      ELSE IF first.threw # "" THEN [threw |-> first.threw, runOrder |-> <<>>]
      ELSE ScheduleLoop(depGraph, first.result, <<>>)

\* ------------------------------------------------------------------ options
\* WorkspaceExecuteOptions as the caller passes them: a key is "absent" or
\* carries "true" / "false"; dependencyOrder may also be an "object" whose
\* include lists some of the four kinds
AllKinds(v) == [k \in KindSet |-> v]

RawOptions ==
  {[parallel |-> par, dependencyOrder |-> dord, include |-> AllKinds("absent")] :
     par \in {"absent", "true", "false"}, dord \in {"absent", "true", "false"}}
  \cup
  {[parallel |-> par, dependencyOrder |-> "object", include |-> inc] :
     par \in {"absent", "true", "false"},
     inc \in [KindSet -> {"absent", "true", "false"}]}

\* the defaults of the structured branch are those of the === true branch:
\* a kind the caller left out is selected
applyDefaultsLeftOutSelected(raw) ==
  LET par == IF raw.parallel = "absent" THEN "false" ELSE raw.parallel
      dord == IF raw.dependencyOrder = "absent" THEN "false" ELSE raw.dependencyOrder
  IN  IF dord = "true"
        THEN [parallel |-> par, dependencyOrder |-> "object", include |-> AllKinds("true")]
      ELSE IF dord = "false"
        THEN [parallel |-> par, dependencyOrder |-> "false", include |-> AllKinds("false")]
      ELSE [parallel |-> par, dependencyOrder |-> "object",
            include |-> [k \in KindSet |->
                           IF raw.include[k] = "absent" THEN "true" ELSE raw.include[k]]]

\* _applyWorkspaceExecuteOptionDefaults.  The result keeps dependencyOrder as
\* "false" or "object"; include is read only when it is "object".
applyWorkspaceExecuteOptionDefaults(raw) ==
  LET par == IF raw.parallel = "absent" THEN "false" ELSE raw.parallel
      dord == IF raw.dependencyOrder = "absent" THEN "false" ELSE raw.dependencyOrder
  IN  IF dord = "true"
        THEN [parallel |-> par, dependencyOrder |-> "object", include |-> AllKinds("true")]
      ELSE IF dord = "false"
        THEN [parallel |-> par, dependencyOrder |-> "false", include |-> AllKinds("false")]
      ELSE [parallel |-> par, dependencyOrder |-> "object",
            include |-> [k \in KindSet |->
                           IF raw.include[k] = "absent" THEN "false" ELSE raw.include[k]]]

\* the test stops at typeof options.dependencyOrder === "object"
OrderingRequestedTypeofOnly(opt) == opt.dependencyOrder = "object"

\* the condition of lines 345-351
OrderingRequested(opt) ==
  opt.dependencyOrder = "object" /\ \E k \in KindSet : Truthy(opt.include[k])

\* the whole list is wrapped once instead of each package
SingletonsWrapOnce(s) == <<s>>

Singletons(s) == [i \in 1..Len(s) |-> <<s[i]>>]

\* _buildWorkspaceWalkOrder
buildWorkspaceWalkOrder(opt, data, reg) ==
  IF OrderingRequested(opt)
    THEN LET r == buildWorkspacePackagesDependencyArray(data, reg, opt.include)
         IN  IF r.threw # "" THEN [threw |-> r.threw, packages |-> <<>>]
             ELSE IF ~Truthy(opt.parallel)
               THEN [threw |-> "", packages |-> Singletons(Flat(r.runOrder))]
             ELSE [threw |-> "", packages |-> r.runOrder]
  ELSE IF Truthy(opt.parallel) THEN [threw |-> "", packages |-> <<reg>>]
  ELSE [threw |-> "", packages |-> Singletons(reg)]

\* ------------------------------------------------------------ the workspace
\* every way to write at most MaxDeps dependency entries <<path, kind, name>>
\* into the package.json files of the members, all under one kind of ks
EntrySets(ks) == UNION {SubsetsUpTo(Paths \X {k} \X DepNames, MaxDeps) : k \in ks}

Workspaces(nameMaps, ks) ==
  {[p \in Paths |-> PackageData(nm, es, p)] : nm \in nameMaps, es \in EntrySets(ks)}

\* ---------------------------------------------------------------- the state
VARIABLES
  fs,          \* the package.json data of the member directories, by path
  args,        \* the options argument workspaceWalk is called with
  workspacePackagesQuery,  \* the memoized registry: [set, packages]
  pc,          \* position of workspaceWalk: "call", "order", "loop", "returned", "threw"
  options,     \* the options of the walk after line 369
  order,       \* the walk order of line 370: the batches, each a list of paths
  threw,       \* the error workspaceWalk rejected with, "" if none
  seqIdx,      \* the batch the outer for loop is at
  paraIdx,     \* the next package of that batch the inner for loop launches
  promise,     \* per package, its fnWrapper promise: "none", "pending", "success", "failure"
  calls,       \* per package, how many times fn was called
  results,     \* the results array of line 372
  returned,    \* the aggregate of line 406
  discoveries, \* how many times _workspacePackagesQueryFactory was called
  completed,   \* the packages whose action has settled, in the order they settled
  run,         \* one member package and a call of its run(script):
               \* see PackageInputs, PackageLoaded, RunCalled
  walks        \* further walks on the same object, as far as the registry:
               \* [pc, got, seen], see WalkAwaitsRegistry

vars == <<fs, args, workspacePackagesQuery, pc, options, order, threw, seqIdx, paraIdx,
          promise, calls, results, returned, discoveries, completed, run, walks>>

Walkers == 1..NumWalks

\* ------------------------------------------------------------ Package.run
Managers == <<"npm", "yarn", "pnpm">>
LockFiles == {"package-lock.json", "yarn.lock"}

\* a member directory before it is loaded: the lock files it holds, whether
\* its package.json has the script, the skipMissing argument, and the exit
\* code each manager's run command would end with
PackageInputs ==
  {[pc |-> "new", lockFiles |-> lf, hasScript |-> hs, skipMissing |-> sm, exits |-> ex,
    packageManager |-> "", at |-> "", code |-> 0, executed |-> <<>>, threw |-> FALSE] :
     lf \in SUBSET LockFiles, hs \in BOOLEAN, sm \in BOOLEAN,
     ex \in [Range(Managers) -> {0, 1}]}

NoPackage == CHOOSE r \in PackageInputs :
               r.lockFiles = {} /\ ~r.hasScript /\ r.skipMissing /\ \A m \in Range(Managers) : r.exits[m] = 0

\* lines 28-34: the probe of the constructor
DetectPackageManager(lockFiles) ==
  IF "package-lock.json" \in lockFiles THEN "npm"
  ELSE IF "yarn.lock" \in lockFiles THEN "yarn"
  ELSE "pnpm"

\* the case label after a case of the switch of lines 276-283
NextCase(m) == IF m = "npm" THEN "yarn" ELSE IF m = "yarn" THEN "pnpm" ELSE "end"

NoOptions == [parallel |-> "false", dependencyOrder |-> "false", include |-> AllKinds("false")]
NoReturn == [hasErrors |-> FALSE, errors |-> <<>>, results |-> <<>>]

InitWith(workspaces, arguments, packages) ==
  /\ fs \in workspaces
  /\ run \in packages
  /\ args \in arguments
  /\ workspacePackagesQuery = [set |-> FALSE, settled |-> FALSE, packages |-> <<>>]
  /\ pc = "call"
  /\ options = NoOptions
  /\ order = <<>>
  /\ threw = ""
  /\ seqIdx = 1
  /\ paraIdx = 1
  /\ promise = [p \in Paths |-> "none"]
  /\ calls = [p \in Paths |-> 0]
  /\ results = <<>>
  /\ returned = NoReturn
  /\ discoveries = 0
  /\ completed = <<>>
  /\ walks = [w \in Walkers |-> [pc |-> "idle", got |-> "none", seen |-> <<>>]]

\* line 369: workspaceWalk is called and normalises its options
WalkBegin ==
  /\ pc = "call"
  /\ options' = applyWorkspaceExecuteOptionDefaults(args)
  /\ pc' = "order"
  /\ UNCHANGED <<run, fs, args, walks, completed, discoveries,
                 workspacePackagesQuery, order, threw, seqIdx, paraIdx, promise,
                 calls, results, returned>>

\* the getter of lines 59-61 after its promise resolved
\* the getter assigns with = in place of ??=: every read calls the factory
NeedsDiscoveryAlways(q) == TRUE

\* the ??= of line 60: the factory is called only when no promise is stored
NeedsDiscovery(q) == ~q.set

Registry == IF NeedsDiscovery(workspacePackagesQuery)
              THEN workspacePackagesQueryFactory(fs)
              ELSE workspacePackagesQuery.packages

\* line 370: _buildWorkspaceWalkOrder awaits the registry and either returns
\* the batches or throws, and then workspaceWalk rejects
WalkOrder ==
  /\ pc = "order"
  /\ LET reg == Registry
         r == buildWorkspaceWalkOrder(options, fs, reg)
     IN  /\ workspacePackagesQuery' = [set |-> TRUE, settled |-> TRUE, packages |-> reg]
         /\ discoveries' = IF NeedsDiscovery(workspacePackagesQuery)
                             THEN discoveries + 1 ELSE discoveries
         /\ IF r.threw = ""
               THEN /\ order' = r.packages
                    /\ pc' = "loop"
                    /\ threw' = threw
               ELSE /\ threw' = r.threw
                    /\ pc' = "threw"
                    /\ order' = order
  /\ UNCHANGED <<run, fs, args, walks, completed, options, seqIdx, paraIdx, promise,
                 calls, results, returned>>

InLoop == pc = "loop" /\ seqIdx <= Len(order)

\* lines 376-395: the inner loop calls fnWrapper, hence fn, for the next package
Launch ==
  /\ InLoop
  /\ paraIdx <= Len(order[seqIdx])
  /\ LET para == order[seqIdx][paraIdx]
     IN  /\ promise' = [promise EXCEPT ![para] = "pending"]
         /\ calls' = [calls EXCEPT ![para] = @ + 1]
  /\ paraIdx' = paraIdx + 1
  /\ UNCHANGED <<run, fs, args, walks, completed, discoveries,
                 workspacePackagesQuery, pc, options, order, threw, seqIdx, results,
                 returned>>

\* lines 378-391: fn(pkg) resolves or rejects; fnWrapper turns either into its
\* result object, so its own promise always fulfils
Settle(p, success) ==
  /\ pc = "loop"
  /\ promise[p] = "pending"
  /\ promise' = [promise EXCEPT ![p] = IF success THEN "success" ELSE "failure"]
  /\ completed' = Append(completed, p)
  /\ UNCHANGED <<run, fs, args, walks, discoveries, workspacePackagesQuery, pc,
                 options, order, threw, seqIdx, paraIdx, calls, results, returned>>

ActionSettles == \E p \in Paths, success \in BOOLEAN : Settle(p, success)

\* the catch block reports success: true
WalkResultAlwaysSuccess(p) == [package |-> p, success |-> TRUE]

WalkResult(p) == [package |-> p, success |-> promise[p] = "success"]

\* Promise.race in place of Promise.allSettled: the first settled promise of
\* the batch ends the wait
BatchSettledRace ==
  /\ InLoop
  /\ paraIdx > Len(order[seqIdx])
  /\ \E i \in 1..Len(order[seqIdx]) : promise[order[seqIdx][i]] \in {"success", "failure"}
  /\ results' = results \o [i \in 1..Len(order[seqIdx]) |->
                              [package |-> order[seqIdx][i],
                               success |-> promise[order[seqIdx][i]] = "success"]]
  /\ seqIdx' = seqIdx + 1
  /\ paraIdx' = 1
  /\ UNCHANGED <<run, fs, args, walks, completed, discoveries,
                 workspacePackagesQuery, pc, options, order, threw, promise, calls,
                 returned>>

\* each result is pushed when its action settles, not in the order of pp
BatchSettledCompletionOrder ==
  /\ InLoop
  /\ paraIdx > Len(order[seqIdx])
  /\ \A i \in 1..Len(order[seqIdx]) : promise[order[seqIdx][i]] \in {"success", "failure"}
  /\ results' = results \o [i \in 1..Len(order[seqIdx]) |->
                              WalkResult(completed[Len(results) + i])]
  /\ seqIdx' = seqIdx + 1
  /\ paraIdx' = 1
  /\ UNCHANGED <<run, fs, args, walks, completed, discoveries,
                 workspacePackagesQuery, pc, options, order, threw, promise, calls,
                 returned>>

\* lines 396-399: Promise.allSettled(pp) resolves once every promise of the
\* batch has settled; the values are pushed in the order of pp
BatchSettled ==
  /\ InLoop
  /\ paraIdx > Len(order[seqIdx])
  /\ \A i \in 1..Len(order[seqIdx]) : promise[order[seqIdx][i]] \in {"success", "failure"}
  /\ results' = results \o [i \in 1..Len(order[seqIdx]) |-> WalkResult(order[seqIdx][i])]
  /\ seqIdx' = seqIdx + 1
  /\ paraIdx' = 1
  /\ UNCHANGED <<run, fs, args, walks, completed, discoveries,
                 workspacePackagesQuery, pc, options, order, threw, promise, calls,
                 returned>>

\* a walk with failures returns them alone, the successes are dropped
WalkReturnsFailuresOnly ==
  /\ pc = "loop"
  /\ seqIdx > Len(order)
  /\ LET rError == SelectSeq(results, LAMBDA r : ~r.success)
         rSuccess == SelectSeq(results, LAMBDA r : r.success)
     IN  returned' = [hasErrors |-> rError # <<>>, errors |-> rError,
                      results |-> IF rError # <<>> THEN <<>> ELSE rSuccess]
  /\ pc' = "returned"
  /\ UNCHANGED <<run, fs, args, walks, completed, discoveries,
                 workspacePackagesQuery, options, order, threw, seqIdx, paraIdx,
                 promise, calls, results>>

\* lines 402-410: the aggregate
WalkReturns ==
  /\ pc = "loop"
  /\ seqIdx > Len(order)
  /\ LET rError == SelectSeq(results, LAMBDA r : ~r.success)
         rSuccess == SelectSeq(results, LAMBDA r : r.success)
     IN  returned' = [hasErrors |-> rError # <<>>, errors |-> rError, results |-> rSuccess]
  /\ pc' = "returned"
  /\ UNCHANGED <<run, fs, args, walks, completed, discoveries,
                 workspacePackagesQuery, options, order, threw, seqIdx, paraIdx,
                 promise, calls, results>>

\* ------------------------------------------------------------ specifications
\* namings of the members that use the names 1..k for some k; two members
\* may carry the same name
NameMaps == {nm \in [Paths -> Names] : \A p \in Paths : nm[p] = 1 \/ \E q \in Paths : nm[q] = nm[p] - 1}

\* the walk: the members in name order, either all named differently or the
\* first two carrying the same name; dependencies declared under one of the
\* first two kinds
WalkNameMaps == {[p \in Paths |-> p], [p \in Paths |-> IF p = 1 THEN 1 ELSE p - 1]}
WalkKinds == {Kinds[1], Kinds[2]}

\* the ways of calling in which no key is left out: every option record the
\* normalisation can produce comes from one of them
CallOptions == {raw \in RawOptions : raw.parallel # "absent" /\ raw.dependencyOrder # "absent"
                                     /\ (raw.dependencyOrder = "object" =>
                                           \A k \in KindSet : raw.include[k] # "absent")}

Init == InitWith(Workspaces(WalkNameMaps, WalkKinds), CallOptions, {NoPackage})

Next ==
  \/ WalkBegin
  \/ WalkOrder
  \/ Launch
  \/ ActionSettles
  \/ BatchSettled
  \/ WalkReturns

Spec == Init /\ [][Next]_vars

\* the scheduler alone: the members in any glob order, dependencies declared
\* under one of the last two kinds
SchedKinds == {Kinds[3], Kinds[4]}

InitSched == InitWith(Workspaces(NameMaps, SchedKinds), CallOptions, {NoPackage})

NextSched ==
  \/ WalkBegin
  \/ WalkOrder

SpecSched == InitSched /\ [][NextSched]_vars

\* the normalisation and the graph it selects: every way of calling, keys
\* left out included, on uniquely named members that depend on one another
\* under the first two kinds, mixed
MixedWorkspaces ==
  {[p \in Paths |-> PackageData([q \in Paths |-> q], es, p)] :
     es \in SubsetsUpTo(Paths \X WalkKinds \X Names, MaxDeps)}

InitOptions == InitWith(MixedWorkspaces, RawOptions, {NoPackage})

NextOptions ==
  \/ WalkBegin
  \/ WalkOrder

SpecOptions == InitOptions /\ [][NextOptions]_vars

\* lines 80, 357: a walk reads the getter of lines 59-61, which calls the
\* factory when no promise is stored, and awaits the promise it got
WalkAwaitsRegistry(w) ==
  /\ walks[w].pc \in {"idle", "done"}
  /\ IF NeedsDiscovery(workspacePackagesQuery)
       THEN /\ workspacePackagesQuery' = [set |-> TRUE, settled |-> FALSE, packages |-> <<>>]
            /\ discoveries' = discoveries + 1
            /\ walks' = [walks EXCEPT ![w] = [pc |-> "awaiting", got |-> "created", seen |-> <<>>]]
       ELSE /\ UNCHANGED <<workspacePackagesQuery, discoveries>>
            /\ walks' = [walks EXCEPT ![w] =
                           [pc |-> "awaiting",
                            got |-> IF workspacePackagesQuery.settled THEN "settled" ELSE "pending",
                            seen |-> <<>>]]
  /\ UNCHANGED <<run, fs, args, completed, pc, options, order, threw, seqIdx,
                 paraIdx, promise, calls, results, returned>>

\* lines 37-57: the factory's promise resolves with the members found on disk
DiscoveryResolves ==
  /\ workspacePackagesQuery.set /\ ~workspacePackagesQuery.settled
  /\ workspacePackagesQuery' =
       [set |-> TRUE, settled |-> TRUE, packages |-> workspacePackagesQueryFactory(fs)]
  /\ UNCHANGED <<run, fs, args, walks, completed, discoveries, pc, options, order,
                 threw, seqIdx, paraIdx, promise, calls, results, returned>>

\* the await of lines 80, 357 resumes with the collection of the promise
RegistryAwaited(w) ==
  /\ walks[w].pc = "awaiting"
  /\ workspacePackagesQuery.settled
  /\ walks' = [walks EXCEPT ![w].pc = "done", ![w].seen = workspacePackagesQuery.packages]
  /\ UNCHANGED <<run, fs, args, completed, workspacePackagesQuery, discoveries, pc,
                 options, order, threw, seqIdx, paraIdx, promise, calls, results,
                 returned>>

\* outside the program: the package.json of a member gets another name
FsChanges ==
  /\ \E p \in Paths, n \in Names :
       /\ n # fs[p].name
       /\ fs' = [fs EXCEPT ![p].name = n]
  /\ UNCHANGED <<run, args, walks, completed, workspacePackagesQuery, discoveries,
                 pc, options, order, threw, seqIdx, paraIdx, promise, calls, results,
                 returned>>

\* walks on one object, sequential and concurrent, over a changing file system
InitRegistry ==
  InitWith({[p \in Paths |-> PackageData(nm, {}, p)] : nm \in NameMaps}, {NoOptions},
           {NoPackage})

NextRegistry ==
  \/ \E w \in Walkers : WalkAwaitsRegistry(w)
  \/ DiscoveryResolves
  \/ \E w \in Walkers : RegistryAwaited(w)
  \/ FsChanges

SpecRegistry == InitRegistry /\ [][NextRegistry]_vars

WalkUntouched ==
  UNCHANGED <<fs, args, workspacePackagesQuery, pc, options, order, threw, seqIdx, paraIdx,
              promise, calls, results, returned, discoveries, completed, walks>>

\* lines 27-35: Package.load constructs the package, which detects its manager
PackageLoaded ==
  /\ run.pc = "new"
  /\ run' = [run EXCEPT !.pc = "loaded",
                         !.packageManager = DetectPackageManager(run.lockFiles)]
  /\ WalkUntouched

\* lines 260-275: run(script, skipMissing) up to the switch
RunCalled ==
  /\ run.pc = "loaded"
  /\ run' = IF ~run.hasScript
              THEN IF run.skipMissing THEN [run EXCEPT !.pc = "returned"]
                   ELSE [run EXCEPT !.pc = "threw", !.threw = TRUE]
              ELSE [run EXCEPT !.pc = "switch", !.code = 0, !.at = run.packageManager]
  /\ WalkUntouched

\* lines 276-283: the case the switch is at awaits its run command and keeps
\* the exit code; no case ends with a break, so control falls into the next
RunCase ==
  /\ run.pc = "switch"
  /\ run.at \in Range(Managers)
  /\ run' = [run EXCEPT !.executed = Append(@, run.at),
                         !.code = run.exits[run.at],
                         !.at = NextCase(run.at)]
  /\ WalkUntouched

\* lines 285-291: a non-zero code is thrown
RunChecked ==
  /\ run.pc = "switch"
  /\ run.at = "end"
  /\ run' = IF run.code # 0 THEN [run EXCEPT !.pc = "threw", !.threw = TRUE]
              ELSE [run EXCEPT !.pc = "returned"]
  /\ WalkUntouched

\* Package.load and Package.run on one member directory
InitRun == InitWith({[p \in Paths |-> PackageData([q \in Paths |-> q], {}, p)]}, {NoOptions},
                    PackageInputs)

NextRun ==
  \/ PackageLoaded
  \/ RunCalled
  \/ RunCase
  \/ RunChecked

SpecRun == InitRun /\ [][NextRun]_vars

\* ------------------------------------------------ vocabulary of the claims
Name(p) == fs[p].name
MemberNames == {Name(p) : p \in Paths}
Selected(k) == options.include[k] = "true"

\* package p declares, under a selected kind, a dependency named n
Declares(p, n) == \E k \in KindSet : Selected(k) /\ n \in fs[p].deps[k]

\* the workspace project a name stands for is the first member carrying it
IsResolved(p) == \A q \in Paths : Name(q) = Name(p) => p <= q
Resolved == {p \in Paths : IsResolved(p)}

\* project p depends on workspace project q through a selected kind
DependsOn(p, q) == IsResolved(q) /\ \E r \in Paths : Name(r) = Name(p) /\ Declares(r, Name(q))

RECURSIVE ReachesIn(_, _, _)
ReachesIn(p, q, n) ==
  n > 0 /\ (DependsOn(p, q) \/ \E r \in Resolved : DependsOn(p, r) /\ ReachesIn(r, q, n - 1))

Cyclic == \E p \in Resolved : ReachesIn(p, p, NumPkgs)
Unmatched == \E p \in Paths : \E n \in DepNames \ MemberNames : Declares(p, n)

UniqueNames == \A p, q \in Paths : Name(p) = Name(q) => p = q

Scheduled == Range(Flat(order))
BatchOf(p) == CHOOSE i \in 1..Len(order) : p \in Range(order[i])
Settled(p) == promise[p] \in {"success", "failure"}
Started(p) == promise[p] # "none"
Parallel == options.parallel = "true"
Ordered == options.dependencyOrder = "object" /\ \E k \in KindSet : Selected(k)

\* ------------------------------------------------------------------ claims

\* C1: when the selected-kind graph is acyclic (and every selected dependency
\* name is a member), the scheduler produces an order; and in every order it
\* produces each graph node occurs once and every project lies in a strictly
\* later batch than each workspace project it depends on.
C1_BatchesAreTopological ==
  /\ (pc \in {"loop", "threw"} /\ Ordered /\ ~Cyclic /\ ~Unmatched) => pc = "loop"
  /\ (pc = "loop" /\ Ordered) =>
       /\ Scheduled = Resolved
       /\ Len(Flat(order)) = Cardinality(Resolved)
       /\ \A p, q \in Scheduled : DependsOn(p, q) => BatchOf(q) < BatchOf(p)

C1_Witness ==
  /\ pc = "loop" /\ Ordered /\ Parallel
  /\ Len(order) = 2
  /\ \A p \in Range(order[2]) : \E q \in Range(order[1]) : DependsOn(p, q)

\* C2: with dependency ordering requested, a project's action has started
\* only if the action of every workspace project it depends on (selected
\* kinds) has settled, as success or as failure.
C2_StartsAfterDependenciesSettle ==
  (pc \in {"loop", "returned"} /\ Ordered) =>
    \A p, q \in Paths : (Started(p) /\ ~Settled(q)) => ~DependsOn(p, q)

C2_Witness ==
  /\ pc = "loop" /\ Ordered
  /\ \E p, q \in Paths : DependsOn(p, q) /\ promise[p] = "pending" /\ promise[q] = "failure"

\* C3: a selected-kind dependency name that matches no workspace project
\* raises no error: without a cycle the walk order is built and the walk
\* proceeds to its actions (stated for uniquely named members).
C3_UnmatchedNameIsNoError ==
  (pc \in {"loop", "returned", "threw"} /\ UniqueNames /\ Ordered /\ Unmatched /\ ~Cyclic)
    => pc # "threw"

\* C4: a cycle among the selected-kind edges makes scheduling fail with the
\* cycle error, with no batch emitted and no action launched (stated for
\* uniquely named members).
C4_CycleFailsWithCycleError ==
  (pc \in {"loop", "returned", "threw"} /\ UniqueNames /\ Ordered /\ Cyclic) =>
    /\ pc = "threw"
    /\ threw = "DepGraphCycleError"
    /\ order = <<>>
    /\ \A p \in Paths : calls[p] = 0

Count(s, p) == Cardinality({i \in 1..Len(s) : s[i].package = p})

\* C5: a failing action is recorded as a failure of exactly its own project,
\* never makes workspaceWalk reject, and leaves every other project's
\* recorded outcome equal to that project's own outcome.
C5_ActionFailureIsolated ==
  /\ (\E p \in Paths : promise[p] = "failure") => (pc \in {"loop", "returned"} /\ threw = "")
  /\ \A i \in 1..Len(results) :
       results[i].success <=> promise[results[i].package] = "success"
  /\ pc = "returned" =>
       \A p \in Paths :
         /\ Count(returned.errors, p) = (IF promise[p] = "failure" THEN 1 ELSE 0)
         /\ Count(returned.results, p) = (IF promise[p] = "success" THEN 1 ELSE 0)

C5_Witness ==
  /\ pc = "returned"
  /\ \E p, q \in Paths : promise[p] = "failure" /\ promise[q] = "success"

\* C6: a returned walk carries exactly one outcome for every discovered
\* project, so results.length + errors.length is the number of projects.
C6_OneOutcomePerProject ==
  pc = "returned" =>
    /\ Len(returned.results) + Len(returned.errors) = Cardinality(Paths)
    /\ \A p \in Paths : Count(returned.results, p) + Count(returned.errors, p) = 1

\* C7: no action of a later batch is launched until every action of the
\* earlier batches has settled; a batch is left only when all its actions were
\* launched and settled; and the launch of the next action of the current
\* batch is never held back by what its siblings did.
C7_SettleAllBarrier ==
  pc \in {"loop", "returned"} =>
    /\ \A i, j \in 1..Len(order) : i < j =>
         \A p \in Range(order[j]) : Started(p) => \A q \in Range(order[i]) : Settled(q)
    /\ \A i \in 1..Len(order) : i < seqIdx => \A q \in Range(order[i]) : Settled(q)
    /\ (InLoop /\ paraIdx <= Len(order[seqIdx])) => ENABLED Launch

C7_Witness ==
  /\ InLoop /\ Parallel
  /\ Len(order[seqIdx]) = 2
  /\ promise[order[seqIdx][1]] = "failure"
  /\ promise[order[seqIdx][2]] = "pending"

InFlight == {p \in Paths : promise[p] = "pending"}

\* C8: with parallel false, at most one action is in flight at any moment,
\* with or without dependency ordering.
C8_SerialOneInFlight ==
  (pc \in {"order", "loop", "returned"} /\ ~Parallel) => Cardinality(InFlight) <= 1

C8_Witness ==
  /\ pc = "loop" /\ ~Parallel
  /\ \E p, q \in Paths : promise[p] = "pending" /\ Settled(q)

\* C9: in a walk that passed scheduling the action is launched exactly once
\* for every discovered project: never twice, and once the walk returns no
\* project was left out.
C9_EveryProjectLaunchedOnce ==
  /\ \A p \in Paths : calls[p] <= 1
  /\ pc = "returned" => \A p \in Paths : calls[p] = 1

IsNameSorted(s) ==
  \A i, j \in 1..Len(s) : i < j =>
    (Name(s[i]) < Name(s[j]) \/ (Name(s[i]) = Name(s[j]) /\ s[i] < s[j]))

\* C10: a walk whose selection excludes all four kinds is ordered like a walk
\* with no ordering requested: it never fails, and its order is every project
\* once in name-sorted order, as one batch (parallel) or one per step (serial).
C10_EmptySelectionIsNoOrdering ==
  (pc \in {"loop", "threw"} /\ ~Ordered) =>
    /\ pc = "loop"
    /\ Range(Flat(order)) = Paths
    /\ Len(Flat(order)) = Cardinality(Paths)
    /\ IsNameSorted(Flat(order))
    /\ Parallel => Len(order) = 1
    /\ ~Parallel => \A i \in 1..Len(order) : Len(order[i]) = 1

C10_Witness ==
  /\ pc = "loop"
  /\ options.dependencyOrder = "object" /\ ~Ordered
  /\ Name(1) > Name(2)
  /\ \E p \in Paths, k \in KindSet : Name(p) \in fs[p].deps[k] /\ 0 \in fs[p].deps[k]

\* C11: after normalisation, dependencyOrder true has become a selection of
\* all four kinds; a structured dependencyOrder selects exactly the kinds the
\* caller set to true (a kind left out is not selected); dependencyOrder
\* false or absent has become false, no ordering; parallel is the caller's
\* value, false when left out.
C11_OptionDefaults ==
  pc # "call" =>
    /\ args.dependencyOrder = "true" =>
          (options.dependencyOrder = "object" /\ \A k \in KindSet : Selected(k))
    /\ args.dependencyOrder = "object" =>
          /\ options.dependencyOrder = "object"
          /\ \A k \in KindSet : Selected(k) <=> args.include[k] = "true"
          /\ \A k \in KindSet : args.include[k] = "absent" => options.include[k] = "false"
    /\ args.dependencyOrder \in {"false", "absent"} =>
          (options.dependencyOrder = "false" /\ ~Ordered)
    /\ options.parallel = (IF args.parallel = "absent" THEN "false" ELSE args.parallel)

C11_Witness ==
  /\ pc = "loop"
  /\ args.parallel = "absent"
  /\ args.dependencyOrder = "object"
  /\ \E k, l \in KindSet : args.include[k] = "true" /\ args.include[l] = "absent"
                            /\ Selected(k) /\ ~Selected(l)

\* C12: over any sequence of walks on one object, concurrent ones included,
\* the factory (glob and load) is called at most once, and every walk gets
\* the same collection, that of the one discovery.
C12_DiscoveryOnce ==
  /\ discoveries <= 1
  /\ \A v, w \in Walkers :
       (walks[v].pc = "done" /\ walks[w].pc = "done") => walks[v].seen = walks[w].seen
  /\ \A w \in Walkers :
       walks[w].pc = "done" =>
         (workspacePackagesQuery.settled /\ walks[w].seen = workspacePackagesQuery.packages)

C12_Witness ==
  /\ discoveries = 1
  /\ \E v, w \in Walkers :
       /\ walks[v].pc = "done" /\ walks[v].got = "created"
       /\ walks[w].pc = "done" /\ walks[w].got = "pending"
       /\ walks[v].seen = walks[w].seen
       /\ walks[v].seen # workspacePackagesQueryFactory(fs)

PackagesOf(s) == {s[i].package : i \in 1..Len(s)}

\* C13: the aggregate has hasErrors true exactly when its errors list is not
\* empty, that is when some action failed, and it then still lists every
\* project whose action succeeded in results and every one whose action
\* failed in errors.
C13_HasErrorsIffErrors ==
  pc = "returned" =>
    /\ returned.hasErrors <=> returned.errors # <<>>
    /\ returned.hasErrors <=> \E p \in Paths : promise[p] = "failure"
    /\ PackagesOf(returned.results) = {p \in Paths : promise[p] = "success"}
    /\ PackagesOf(returned.errors) = {p \in Paths : promise[p] = "failure"}
    /\ \A i \in 1..Len(returned.results) : returned.results[i].success
    /\ \A i \in 1..Len(returned.errors) : ~returned.errors[i].success

C13_Witness ==
  /\ pc = "returned"
  /\ returned.hasErrors
  /\ Len(returned.errors) >= 1
  /\ Len(returned.results) >= 1

Pos(s, x) == CHOOSE i \in 1..Len(s) : s[i] = x

InOrderOf(list, s) ==
  \A i, j \in 1..Len(list) : i < j => Pos(s, list[i].package) < Pos(s, list[j].package)

\* C14: within the errors list and within the results list of the aggregate,
\* of any two entries the one whose action settled first comes first (stated
\* for uniquely named members).
C14_ListsInCompletionOrder ==
  (pc = "returned" /\ UniqueNames) =>
    /\ InOrderOf(returned.errors, completed)
    /\ InOrderOf(returned.results, completed)

\* C14 as amended: both lists follow the walk order, batch by batch and
\* within a batch the order in which the actions were launched; two entries
\* of different batches are thereby also in the order their actions settled.
C14_ListsInWalkOrder ==
  /\ pc \in {"loop", "returned"} =>
       \A i \in 1..Len(results) : results[i].package = Flat(order)[i]
  /\ pc = "returned" =>
       /\ InOrderOf(returned.errors, Flat(order))
       /\ InOrderOf(returned.results, Flat(order))
       /\ \A list \in {returned.errors, returned.results} :
            \A i, j \in 1..Len(list) :
              BatchOf(list[i].package) < BatchOf(list[j].package) =>
                (i < j /\ Pos(completed, list[i].package) < Pos(completed, list[j].package))

C14_Witness ==
  /\ pc = "returned"
  /\ Len(returned.results) = 2
  /\ InOrderOf(returned.results, Flat(order))
  /\ ~InOrderOf(returned.results, completed)

BatchesBefore(k) == UNION {Range(order[i]) : i \in 1..(k - 1)}

\* C15: the batches of an acyclic graph partition its projects, none is
\* empty, and each is maximal: batch k holds exactly the projects not in an
\* earlier batch whose selected-kind workspace dependencies all are in
\* earlier batches.
C15_BatchesAreMaximal ==
  (pc = "loop" /\ Ordered /\ Parallel) =>
    /\ \A k \in 1..Len(order) : order[k] # <<>>
    /\ \A p \in Resolved : Cardinality({k \in 1..Len(order) : p \in Range(order[k])}) = 1
    /\ \A k \in 1..Len(order) : \A i, j \in 1..Len(order[k]) :
         order[k][i] = order[k][j] => i = j
    /\ \A k \in 1..Len(order) :
         Range(order[k]) =
           {p \in Resolved \ BatchesBefore(k) :
              \A q \in Resolved : DependsOn(p, q) => q \in BatchesBefore(k)}

C15_Witness ==
  /\ pc = "loop" /\ Ordered /\ Parallel /\ UniqueNames
  /\ Len(order) = 1
  /\ \E p, q \in Paths, k \in KindSet :
       p # q /\ ~Selected(k) /\ Name(q) \in fs[p].deps[k]

\* the executor loop has a step to take
LoopCanStep == ENABLED (Launch \/ ActionSettles \/ BatchSettled \/ WalkReturns)

\* C16: a walk whose selected-kind graph is acyclic is not rejected by the
\* scheduler and, until it has returned its aggregate, its loop always has a
\* next step to take (so it returns once every launched action has settled;
\* stated for uniquely named members); and it never returns while an action
\* it launched is unsettled.
C16_WalkEventuallyReturns ==
  /\ (pc \in {"loop", "threw", "returned"} /\ UniqueNames /\ ~(Ordered /\ Cyclic)) =>
       /\ pc # "threw"
       /\ pc = "returned" \/ LoopCanStep
  /\ pc = "returned" => \A p \in Paths : Started(p) => Settled(p)

RECURSIVE Level(_)
\* the batch a project belongs to: one more than the latest batch of the
\* workspace projects it depends on
Level(p) ==
  LET below == {q \in Resolved : DependsOn(p, q)}
  IN  IF below = {} THEN 1
      ELSE 1 + (CHOOSE n \in {Level(q) : q \in below} : \A q \in below : Level(q) <= n)

\* C17: with dependency ordering and parallel false the walk order is one
\* project per step, every graph project in exactly one step, and the steps
\* keep the order of the batches: a project of an earlier batch is stepped
\* before every project of a later batch.
C17_SerialKeepsBatchOrder ==
  (pc = "loop" /\ Ordered /\ ~Parallel) =>
    /\ \A i \in 1..Len(order) : Len(order[i]) = 1
    /\ \A p \in Resolved : Cardinality({i \in 1..Len(order) : order[i] = <<p>>}) = 1
    /\ Len(order) = Cardinality(Resolved)
    /\ \A i, j \in 1..Len(order) :
         Level(order[i][1]) < Level(order[j][1]) => i < j

C17_Witness ==
  /\ pc = "loop" /\ Ordered /\ ~Parallel
  /\ Len(order) = 2
  /\ DependsOn(order[2][1], order[1][1])
  /\ Name(order[2][1]) < Name(order[1][1])

\* the graph line 65 gets for the walk
DepGraphOfWalk ==
  buildWorkspacePackagesDepGraph(fs, workspacePackagesQuery.packages, options.include)

Edge(g, p, q) == Name(q) \in Range(g.outgoingEdges[Name(p)])

\* C18: the graph has an edge from project P to workspace project Q exactly
\* when Q's name is in a dependency map of P whose kind is selected; a
\* dependency declared only under an unselected kind makes no edge.
C18_EdgesFollowSelection ==
  (pc = "loop" /\ Ordered) =>
    LET g == DepGraphOfWalk
    IN  /\ DOMAIN g.nodes = {Name(p) : p \in Resolved}
        /\ \A p, q \in Resolved : Edge(g, p, q) <=> DependsOn(p, q)

C18_Witness ==
  /\ pc = "loop" /\ Ordered
  /\ \E p, q \in Paths, k, l \in KindSet :
       /\ p # q /\ Selected(k) /\ args.include[l] = "absent"
       /\ Name(p) \in fs[q].deps[k] /\ Edge(DepGraphOfWalk, q, p)
       /\ Name(q) \in fs[p].deps[l] /\ ~Edge(DepGraphOfWalk, p, q)

\* C19: two members with the same name both come out of discovery, both are
\* in the walk order of every mode, and a returned walk has run the action
\* against both.
C19_SameNameBothWalked ==
  \A p, q \in Paths : (p # q /\ Name(p) = Name(q)) =>
    /\ pc \in {"loop", "returned", "threw"} =>
         {p, q} \subseteq Range(workspacePackagesQuery.packages)
    /\ pc \in {"loop", "returned"} => {p, q} \subseteq Scheduled
    /\ pc = "returned" => (calls[p] = 1 /\ calls[q] = 1)

\* C20: run, for a package that has the script, invokes exactly one command,
\* the run command of the manager detected at load time (npm with a
\* package-lock.json, else yarn with a yarn.lock, else pnpm), and throws
\* exactly when that command's exit code is not zero.
C20_RunInvokesOneCommand ==
  (run.pc \in {"returned", "threw"} /\ run.hasScript) =>
    /\ run.packageManager = DetectPackageManager(run.lockFiles)
    /\ run.executed = <<run.packageManager>>
    /\ run.threw <=> run.exits[run.packageManager] # 0

====

